---- MODULE Spec2Model ----
(***************************************************************************)
(* A model of log_analyzer.py: the parse -> aggregate -> rank pipeline      *)
(* driven by main, and the pure helpers calc_median, analyze_requests,      *)
(* sort_requests_by_time_sum and find_latest_log.                           *)
(*                                                                          *)
(* Floats are modelled in fixed point: one Unit is 1.0 and the smallest     *)
(* step is half of 10^-ndigits, so that the /2 of calc_median and the       *)
(* round(x, 3) of analyze_requests are both exact on the modelled values.   *)
(* Python's None is the empty tuple << >>, a present value v is <<v>>.      *)
(***************************************************************************)
EXTENDS Integers, Sequences, FiniteSets, TLC

VARIABLES
    pc,                 \* position of main
    config,             \* config['REPORT_SIZE']
    latest_log,         \* << >> or <<[path, date]>>
    lines,              \* the elements get_log_lines has yielded so far
    drained,            \* get_log_lines has reached the end of the file
    total_lines,        \* parse_lines.total_lines
    missed_count,       \* parse_lines.missed_count
    yielded,            \* the records parse_lines has yielded so far
    request_line,       \* << >> or <<the record yielded and not yet collected>>
    url_times,          \* collect_times_for_urls.url_times, in insertion order
    analyzed_requests,  \* main.analyzed_requests
    sorted_requests,    \* main.sorted_requests
    report,             \* the reports create_report_for_log has written
    err,                \* the exception that ended main, and where it was raised
    call,               \* a direct call of one helper: its name and arguments
    ret                 \* what that call returned or raised

vars == <<pc, config, latest_log, lines, drained, total_lines, missed_count,
          yielded, request_line, url_times, analyzed_requests, sorted_requests,
          report, err, call, ret>>

pipeline_vars == <<pc, config, latest_log, lines, drained, total_lines,
                   missed_count, yielded, request_line, url_times,
                   analyzed_requests, sorted_requests, report, err>>

----------------------------------------------------------------------------
(* Bounds of the model.                                                     *)

MaxLines == 4
MaxTolLines == 10
MaxReportSize == 3
MaxFiles == 3
MaxNums == 5
MaxSamples == 2

----------------------------------------------------------------------------
(* Numbers.                                                                 *)

ndigits == 3

limit_perc == 30

RECURSIVE Pow10(_)
Pow10(n) == IF n = 0 THEN 1 ELSE 10 * Pow10(n - 1)

Unit == 2 * Pow10(ndigits)

Min(a, b) == IF a <= b THEN a ELSE b

\* n / d rounded to the nearest integer, ties to even (n >= 0, d > 0).
RoundHalfEven(n, d) ==
    LET q == n \div d
        r == n % d
    IN  IF 2 * r < d THEN q
        ELSE IF 2 * r > d THEN q + 1
        ELSE IF q % 2 = 0 THEN q ELSE q + 1

\* round(n / d, ndigits) of a value n / d given in Units: a multiple of 10^-3.
Round3(n, d) == 2 * RoundHalfEven(n, 2 * d)

RECURSIVE Gcd(_, _)
Gcd(a, b) == IF b = 0 THEN a ELSE Gcd(b, a % b)

\* round(100 * a / b, ndigits) in Units, for b > 0.  The fraction is reduced
\* first, which keeps the intermediate products small.
Percent(a, b) ==
    LET g == Gcd(a, b) IN Round3(100 * Unit * (a \div g), b \div g)

RECURSIVE SumSeq(_)
SumSeq(s) == IF s = << >> THEN 0 ELSE Head(s) + SumSeq(Tail(s))

RECURSIVE MaxSeq(_)
MaxSeq(s) ==
    IF Len(s) = 1 THEN s[1]
    ELSE LET m == MaxSeq(Tail(s)) IN IF s[1] >= m THEN s[1] ELSE m

RECURSIVE SeqsUpTo(_, _)
SeqsUpTo(S, n) ==
    IF n = 0 THEN {<< >>}
    ELSE LET shorter == SeqsUpTo(S, n - 1)
         IN  shorter \cup {Append(s, x) : s \in {t \in shorter : Len(t) = n - 1}, x \in S}

Range(s) == {s[i] : i \in 1..Len(s)}

DistinctSeqsUpTo(S, n) == {s \in SeqsUpTo(S, n) : Cardinality(Range(s)) = Len(s)}

----------------------------------------------------------------------------
(* Text.                                                                    *)

Digits == <<"0", "1", "2", "3", "4", "5", "6", "7", "8", "9">>

IsDigit(c) == c \in Range(Digits)

DigitVal(c) == (CHOOSE i \in 1..Len(Digits) : Digits[i] = c) - 1

\* The length of the longest run of digits of s that starts at position i.
RECURSIVE DigitRun(_, _)
DigitRun(s, i) ==
    IF i <= Len(s) /\ IsDigit(s[i]) THEN 1 + DigitRun(s, i + 1) ELSE 0

\* The group (?P<request_time>\d+\.\d+) matched at the start of tail:
\* << >> when it does not match, <<the captured text>> when it does.
request_time_group(tail) ==
    LET n1 == DigitRun(tail, 1)
        n2 == DigitRun(tail, n1 + 2)
    IN  IF n1 >= 1 /\ n1 + 1 <= Len(tail) /\ tail[n1 + 1] = "." /\ n2 >= 1
        THEN <<SubSeq(tail, 1, n1 + 1 + n2)>>
        ELSE << >>

RECURSIVE IntOf(_)
IntOf(ds) ==
    IF ds = << >> THEN 0
    ELSE 10 * IntOf(SubSeq(ds, 1, Len(ds) - 1)) + DigitVal(ds[Len(ds)])

\* float(text) for a text of the form \d+\.\d+, in Units.  Exact for up to
\* ndigits digits after the point; further digits are dropped.
float(text) ==
    LET n1 == DigitRun(text, 1)
        int == SubSeq(text, 1, n1)
        frac == SubSeq(text, n1 + 2, Min(Len(text), n1 + 1 + ndigits))
    IN  IntOf(int) * Unit + (IntOf(frac) * Unit) \div Pow10(Len(frac))

----------------------------------------------------------------------------
(* calc_median.                                                             *)

\* s with x put after every element that is <= x: one step of sorted().
RECURSIVE InsertAsc(_, _)
InsertAsc(x, s) ==
    IF s = << >> THEN <<x>>
    ELSE IF x < Head(s) THEN <<x>> \o s
    ELSE <<Head(s)>> \o InsertAsc(x, Tail(s))

\* sorted(numbers): a new list, ascending.
RECURSIVE sorted(_)
sorted(numbers) ==
    IF numbers = << >> THEN << >>
    ELSE InsertAsc(numbers[Len(numbers)], sorted(SubSeq(numbers, 1, Len(numbers) - 1)))

\* The mutant of calc_median that always takes the upper middle element.
calc_median_upper(numbers) ==
    LET sorted_nums == sorted(numbers)
    IN  [ret |-> sorted_nums[Len(sorted_nums) \div 2 + 1], numbers |-> numbers]

\* calc_median: the value returned (in Units) and the caller's list after the
\* call (sorted() copies, so it is the list that was passed).
calc_median(numbers) ==
    LET sorted_nums == sorted(numbers)
        nums_count == Len(sorted_nums)
        i == nums_count \div 2
    IN  [ret |-> IF nums_count % 2 = 1
                 THEN sorted_nums[nums_count \div 2 + 1]
                 ELSE (sorted_nums[i] + sorted_nums[i + 1]) \div 2,
         numbers |-> numbers]

----------------------------------------------------------------------------
(* parse_lines.                                                             *)

\* The mutant of is_too_many_missed_lines with an exclusive boundary.
is_too_many_missed_lines_exclusive(missed, total, limit) ==
    100 * missed > limit * total

\* is_too_many_missed_lines: (missed / total) * 100 >= limit_perc, total > 0.
\* The float comparison and this exact one agree for every total below 3000.
is_too_many_missed_lines(missed, total, limit) ==
    100 * missed >= limit * total

\* get_log_lines: the element yielded for one line of the file.  gzip.open
\* opens in binary mode, open in text mode.
get_log_lines(log, text) ==
    [type |-> IF log.path.ext = ".gz" THEN "bytes" ELSE "str", text |-> text]

\* log_pattern.match(line) for a str line: << >> for no match, else
\* <<groupdict>>, of which only the two groups the pipeline reads are kept.
\* text.head says whether the line matches the pattern up to request_time.
log_pattern_match(text) ==
    LET t == request_time_group(text.tail)
    IN  IF text.head /\ t # << >>
        THEN <<[request_url |-> text.url, request_time |-> t[1]]>>
        ELSE << >>

\* The mutant of parse_lines_step that counts a matched line as missed too.
parse_lines_step_nocontinue(total, missed, line) ==
    IF line.type = "bytes"
    THEN [total_lines |-> total + 1, missed_count |-> missed,
          out |-> << >>, error |-> "TypeError"]
    ELSE [total_lines |-> total + 1, missed_count |-> missed + 1,
          out |-> log_pattern_match(line.text), error |-> "none"]

\* One iteration of the for loop of parse_lines: the counters after it, the
\* record yielded (if any) and the exception raised (a str pattern cannot be
\* matched against bytes).
parse_lines_step(total, missed, line) ==
    IF line.type = "bytes"
    THEN [total_lines |-> total + 1, missed_count |-> missed,
          out |-> << >>, error |-> "TypeError"]
    ELSE LET match == log_pattern_match(line.text)
         IN  [total_lines |-> total + 1,
              missed_count |-> IF match = << >> THEN missed + 1 ELSE missed,
              out |-> match, error |-> "none"]

\* The mutant of parse_lines_end without the empty-file check: 0 / 0 raises.
parse_lines_end_noempty(total, missed) ==
    IF total = 0 THEN "ZeroDivisionError"
    ELSE IF is_too_many_missed_lines(missed, total, limit_perc) THEN "RuntimeError"
    ELSE "none"

\* The mutant of parse_lines_end without the missed-lines check.
parse_lines_end_nolimit(total, missed) ==
    IF total = 0 THEN "ValueError" ELSE "none"

\* parse_lines after its for loop: the exception it raises, or "none".
parse_lines_end(total, missed) ==
    IF total = 0 THEN "ValueError"
    ELSE IF is_too_many_missed_lines(missed, total, limit_perc) THEN "RuntimeError"
    ELSE "none"

----------------------------------------------------------------------------
(* collect_times_for_urls.                                                  *)

Urls(times_map) == {times_map[i].url : i \in 1..Len(times_map)}

TimesOf(times_map, url) ==
    LET i == CHOOSE j \in 1..Len(times_map) : times_map[j].url = url
    IN  times_map[i].times

\* The mutant of collect_append that replaces the list of the URL.
collect_assign(times_map, record) ==
    LET url == record.request_url
        t == float(record.request_time)
    IN  IF url \in Urls(times_map)
        THEN [i \in 1..Len(times_map) |->
                IF times_map[i].url = url
                THEN [url |-> url, times |-> <<t>>]
                ELSE times_map[i]]
        ELSE Append(times_map, [url |-> url, times |-> <<t>>])

\* url_times[url].append(float(request_line['request_time'])) on a
\* defaultdict(list): a new key goes last.
collect_append(times_map, record) ==
    LET url == record.request_url
        t == float(record.request_time)
    IN  IF url \in Urls(times_map)
        THEN [i \in 1..Len(times_map) |->
                IF times_map[i].url = url
                THEN [url |-> url, times |-> Append(times_map[i].times, t)]
                ELSE times_map[i]]
        ELSE Append(times_map, [url |-> url, times |-> <<t>>])

----------------------------------------------------------------------------
(* analyze_requests.                                                        *)

RECURSIVE TotalCount(_)
TotalCount(times_map) ==
    IF times_map = << >> THEN 0
    ELSE Len(Head(times_map).times) + TotalCount(Tail(times_map))

RECURSIVE TotalTime(_)
TotalTime(times_map) ==
    IF times_map = << >> THEN 0
    ELSE SumSeq(Head(times_map).times) + TotalTime(Tail(times_map))

\* The dict appended for one URL (no division in it is by zero).
UrlStats(url, times, total_count, total_time) ==
    LET requests_len == Len(times)
        sum_times == SumSeq(times)
        max_times == MaxSeq(times)
    IN  [url |-> url,
         count |-> Len(times),
         count_perc |-> Percent(requests_len, total_count),
         time_sum |-> Round3(sum_times, 1),
         time_perc |-> Percent(sum_times, total_time),
         time_avg |-> Round3(sum_times, requests_len),
         time_max |-> Round3(max_times, 1),
         time_med |-> Round3(calc_median(times).ret, 1)]

\* analyze_requests: the list returned, or the exception raised: max([]) is
\* a ValueError, and 100 * sum_times / total_time divides by total_time.
analyze_requests(times_map) ==
    LET total_count == TotalCount(times_map)
        total_time == TotalTime(times_map)
        error == IF times_map = << >> THEN "none"
                 ELSE IF times_map[1].times = << >> THEN "ValueError"
                 ELSE IF total_time = 0 THEN "ZeroDivisionError"
                 ELSE IF \E i \in 1..Len(times_map) : times_map[i].times = << >>
                      THEN "ValueError"
                 ELSE "none"
    IN  [error |-> error,
         value |-> IF error # "none" THEN << >>
                   ELSE [i \in 1..Len(times_map) |->
                           UrlStats(times_map[i].url, times_map[i].times,
                                    total_count, total_time)]]

----------------------------------------------------------------------------
(* sort_requests_by_time_sum and the slice of main.                         *)

\* s with r put after every element whose time_sum is >= that of r.
RECURSIVE InsertDesc(_, _)
InsertDesc(r, s) ==
    IF s = << >> THEN <<r>>
    ELSE IF r.time_sum > Head(s).time_sum THEN <<r>> \o s
    ELSE <<Head(s)>> \o InsertDesc(r, Tail(s))

\* s with r put before every element whose time_sum is <= that of r.
RECURSIVE InsertDescFirst(_, _)
InsertDescFirst(r, s) ==
    IF s = << >> THEN <<r>>
    ELSE IF r.time_sum >= Head(s).time_sum THEN <<r>> \o s
    ELSE <<Head(s)>> \o InsertDescFirst(r, Tail(s))

\* The mutant of sort_requests_by_time_sum that reverses the order of ties
\* (an ascending sort followed by reverse()).
RECURSIVE sort_requests_unstable(_)
sort_requests_unstable(requests) ==
    IF requests = << >> THEN << >>
    ELSE InsertDescFirst(requests[Len(requests)],
             sort_requests_unstable(SubSeq(requests, 1, Len(requests) - 1)))

\* list.sort(key=time_sum, reverse=True): descending, and stable.
RECURSIVE sort_requests_by_time_sum(_)
sort_requests_by_time_sum(requests) ==
    IF requests = << >> THEN << >>
    ELSE InsertDesc(requests[Len(requests)],
             sort_requests_by_time_sum(SubSeq(requests, 1, Len(requests) - 1)))

\* sorted_requests[:config['REPORT_SIZE']] for a positive REPORT_SIZE.
slice(requests, size) == SubSeq(requests, 1, Min(size, Len(requests)))

----------------------------------------------------------------------------
(* find_latest_log.                                                         *)

\* A file name is [pre, base, digits, ext]: the characters before base, the
\* text base, the digits that follow it and the rest of the name.
NonWordChars == {"-", ".", " "}

\* \b before the first character of base, which is a word character.
WordBoundary(pre) == pre = << >> \/ pre[Len(pre)] \in NonWordChars

\* re.findall(pattern, file): << >> or <<the eight digits>>.
findall(file) ==
    IF /\ WordBoundary(file.pre)
       /\ file.base = "nginx-access-ui.log-"
       /\ Len(file.digits) = 8
       /\ file.ext \in {"", ".gz"}
    THEN <<file.digits>>
    ELSE << >>

IsLeap(y) == y % 4 = 0 /\ (y % 100 # 0 \/ y % 400 = 0)

DaysIn(y, m) ==
    IF m = 2 THEN (IF IsLeap(y) THEN 29 ELSE 28)
    ELSE IF m \in {4, 6, 9, 11} THEN 30 ELSE 31

\* try_parse_date: <<date>>, or << >> (None) when strptime raises ValueError.
try_parse_date(date_string) ==
    LET y == 1000 * date_string[1] + 100 * date_string[2]
               + 10 * date_string[3] + date_string[4]
        m == 10 * date_string[5] + date_string[6]
        d == 10 * date_string[7] + date_string[8]
    IN  IF y >= 1 /\ m \in 1..12 /\ d >= 1 /\ d <= DaysIn(y, m)
        THEN <<[year |-> y, month |-> m, day |-> d]>>
        ELSE << >>

DateNum(date) == (date.year * 100 + date.month) * 100 + date.day

\* The for loop of find_latest_log from entry i on.  st is [last_date,
\* last_path, error]; None > date raises TypeError.
RECURSIVE find_loop(_, _, _)
find_loop(listing, i, st) ==
    IF i > Len(listing) \/ st.error # "none" THEN st
    ELSE LET file == listing[i]
             match == findall(file)
         IN  IF match = << >> THEN find_loop(listing, i + 1, st)
             ELSE LET log_date == try_parse_date(match[1])
                  IN  IF st.last_date = << >>
                      THEN find_loop(listing, i + 1,
                               [last_date |-> log_date, last_path |-> <<file>>,
                                error |-> "none"])
                      ELSE IF log_date = << >>
                      THEN [st EXCEPT !.error = "TypeError"]
                      ELSE IF DateNum(log_date[1]) > DateNum(st.last_date[1])
                      THEN find_loop(listing, i + 1,
                               [last_date |-> log_date, last_path |-> <<file>>,
                                error |-> "none"])
                      ELSE find_loop(listing, i + 1, st)

\* find_latest_log: the LogFile returned (<< >> for None), or the exception.
find_latest_log(listing) ==
    LET st == find_loop(listing, 1,
                  [last_date |-> << >>, last_path |-> << >>, error |-> "none"])
    IN  [error |-> st.error,
         log |-> IF st.error = "none" /\ st.last_date # << >>
                 THEN <<[path |-> st.last_path[1], date |-> st.last_date[1]]>>
                 ELSE << >>]

----------------------------------------------------------------------------
(* The inputs the model draws from.                                         *)

Time_0_0 == <<"0", ".", "0">>
Time_1_5 == <<"1", ".", "5">>
Time_0_50 == <<"0", ".", "5", "0">>
Time_12 == <<"1", "2">>

\* Lines of a log file: matched lines of two URLs, a line whose fields before
\* request_time do not match, and a line whose request_time has no point.
LineSet ==
    { [head |-> TRUE, url |-> "/a", tail |-> Time_0_0],
      [head |-> TRUE, url |-> "/a", tail |-> Time_1_5],
      [head |-> TRUE, url |-> "/b", tail |-> Time_1_5],
      [head |-> TRUE, url |-> "/b", tail |-> Time_0_50],
      [head |-> FALSE, url |-> "/a", tail |-> Time_1_5],
      [head |-> TRUE, url |-> "/a", tail |-> Time_12] }

\* One matched and one unmatched line, for long files.
TolLineSet ==
    { [head |-> TRUE, url |-> "/a", tail |-> Time_1_5],
      [head |-> FALSE, url |-> "/a", tail |-> Time_1_5] }

FileNames ==
    { [pre |-> << >>, base |-> "nginx-access-ui.log-",
       digits |-> <<2, 0, 1, 7, 0, 6, 3, 0>>, ext |-> ""],
      [pre |-> << >>, base |-> "nginx-access-ui.log-",
       digits |-> <<2, 0, 1, 8, 0, 6, 3, 0>>, ext |-> ".gz"],
      [pre |-> << >>, base |-> "nginx-access-ui.log-",
       digits |-> <<2, 0, 1, 7, 0, 6, 3, 1>>, ext |-> ""],
      [pre |-> << >>, base |-> "nginx-access-ui.log-",
       digits |-> <<3, 3, 3, 3, 3, 3, 3, 3>>, ext |-> ".bz2"],
      [pre |-> <<"a", "a">>, base |-> "nginx-access-ui.log-",
       digits |-> <<2, 0, 1, 9, 0, 6, 3, 0>>, ext |-> ""],
      [pre |-> << >>, base |-> "file",
       digits |-> <<2, 0, 1, 9, 0, 6, 3, 0>>, ext |-> ""],
      [pre |-> << >>, base |-> "nginx-access-ui.log-",
       digits |-> <<2, 0, 1, 9, 0, 6, 3, 0>>, ext |-> "ff"] }

\* os.listdir(log_dir): distinct names, in any order.
Listings == DistinctSeqsUpTo(FileNames, MaxFiles)

URLs == {"/a", "/b", "/c"}

SampleValues == {0, Unit}

MedianValues == {0, Unit, 3 * Unit}

SampleLists == SeqsUpTo(SampleValues, MaxSamples) \ {<< >>}

\* The TimeSampleSets: every URL at most once, each with at least one sample.
TimesMaps ==
    UNION { { [i \in 1..Len(us) |-> [url |-> us[i], times |-> ts[i]]] :
                ts \in [1..Len(us) -> SampleLists] } :
            us \in DistinctSeqsUpTo(URLs, Cardinality(URLs)) }

NoErr == [type |-> "none", at |-> "none"]

NoCall == [fn |-> "none", numbers |-> << >>, times_map |-> << >>,
           requests |-> << >>, size |-> 0, listing |-> << >>]

NoRet == [done |-> FALSE, error |-> "none", median |-> 0, numbers |-> << >>,
          value |-> << >>, log |-> << >>]

Calls ==
    {[NoCall EXCEPT !.fn = "calc_median", !.numbers = n] :
        n \in SeqsUpTo(MedianValues, MaxNums) \ {<< >>}}
    \cup {[NoCall EXCEPT !.fn = "analyze_requests", !.times_map = t] :
        t \in TimesMaps}
    \cup {[NoCall EXCEPT !.fn = "rank", !.requests = analyze_requests(t).value,
                         !.size = k] :
        t \in {m \in TimesMaps : analyze_requests(m).error = "none"},
        k \in 1..MaxReportSize}
    \cup {[NoCall EXCEPT !.fn = "find_latest_log", !.listing = l] :
        l \in Listings}

----------------------------------------------------------------------------
(* main.                                                                    *)

Init ==
    /\ pc = "start"
    /\ config \in 1..MaxReportSize
    /\ latest_log = << >>
    /\ lines = << >>
    /\ drained = FALSE
    /\ total_lines = 0
    /\ missed_count = 0
    /\ yielded = << >>
    /\ request_line = << >>
    /\ url_times = << >>
    /\ analyzed_requests = << >>
    /\ sorted_requests = << >>
    /\ report = << >>
    /\ err = NoErr
    /\ call = NoCall
    /\ ret = NoRet

\* main up to the first line read: find_latest_log, the two early returns,
\* and the three generators created (none of them has run yet).
MainStart ==
    /\ pc = "start"
    /\ \E listing \in Listings, exists \in BOOLEAN :
         LET found == find_latest_log(listing)
         IN  /\ pc' = IF found.error # "none" THEN "failed"
                      ELSE IF found.log = << >> \/ exists THEN "returned"
                      ELSE "parse"
             /\ err' = IF found.error # "none"
                       THEN [type |-> found.error, at |-> "find_latest_log"]
                       ELSE err
             /\ latest_log' = found.log
    /\ UNCHANGED <<config, lines, drained, total_lines, missed_count, yielded,
                   request_line, url_times, analyzed_requests, sorted_requests,
                   report, call, ret>>

\* collect_times_for_urls asks for the next record: get_log_lines yields one
\* more line of the file and parse_lines runs one iteration of its loop.
ReadLine(Lines, Max) ==
    /\ pc = "parse"
    /\ ~drained
    /\ Len(lines) < Max
    /\ \E text \in Lines :
         LET line == get_log_lines(latest_log[1], text)
             st == parse_lines_step(total_lines, missed_count, line)
         IN  /\ lines' = Append(lines, line)
             /\ total_lines' = st.total_lines
             /\ missed_count' = st.missed_count
             /\ request_line' = st.out
             /\ yielded' = IF st.out = << >> THEN yielded
                           ELSE Append(yielded, st.out[1])
             /\ pc' = IF st.error # "none" THEN "failed"
                      ELSE IF st.out = << >> THEN "parse"
                      ELSE "yield"
             /\ err' = IF st.error # "none"
                       THEN [type |-> st.error, at |-> "parse_lines"]
                       ELSE err
    /\ UNCHANGED <<config, latest_log, drained, url_times, analyzed_requests,
                   sorted_requests, report, call, ret>>

\* The body of the loop of collect_times_for_urls on the record yielded.
Collect ==
    /\ pc = "yield"
    /\ url_times' = collect_append(url_times, request_line[1])
    /\ request_line' = << >>
    /\ pc' = "parse"
    /\ UNCHANGED <<config, latest_log, lines, drained, total_lines, missed_count,
                   yielded, analyzed_requests, sorted_requests, report, err,
                   call, ret>>

\* The file ends: get_log_lines stops, parse_lines leaves its loop and runs
\* its two checks, and collect_times_for_urls returns unless one of them raised.
Exhaust ==
    /\ pc = "parse"
    /\ ~drained
    /\ drained' = TRUE
    /\ LET error == parse_lines_end(total_lines, missed_count)
       IN  /\ pc' = IF error # "none" THEN "failed" ELSE "analyze"
           /\ err' = IF error # "none"
                     THEN [type |-> error, at |-> "parse_lines"]
                     ELSE err
    /\ UNCHANGED <<config, latest_log, lines, total_lines, missed_count, yielded,
                   request_line, url_times, analyzed_requests, sorted_requests,
                   report, call, ret>>

Analyze ==
    /\ pc = "analyze"
    /\ LET r == analyze_requests(url_times)
       IN  /\ pc' = IF r.error # "none" THEN "failed" ELSE "sort"
           /\ err' = IF r.error # "none"
                     THEN [type |-> r.error, at |-> "analyze_requests"]
                     ELSE err
           /\ analyzed_requests' = r.value
    /\ UNCHANGED <<config, latest_log, lines, drained, total_lines, missed_count,
                   yielded, request_line, url_times, sorted_requests, report,
                   call, ret>>

\* The sort is in place: both names refer to the sorted list afterwards.
Sort ==
    /\ pc = "sort"
    /\ sorted_requests' = sort_requests_by_time_sum(analyzed_requests)
    /\ analyzed_requests' = sort_requests_by_time_sum(analyzed_requests)
    /\ pc' = "slice"
    /\ UNCHANGED <<config, latest_log, lines, drained, total_lines, missed_count,
                   yielded, request_line, url_times, report, err, call, ret>>

\* The slice, and create_report_for_log writing it.
Report ==
    /\ pc = "slice"
    /\ report' = Append(report, slice(sorted_requests, config))
    /\ pc' = "done"
    /\ UNCHANGED <<config, latest_log, lines, drained, total_lines, missed_count,
                   yielded, request_line, url_times, analyzed_requests,
                   sorted_requests, err, call, ret>>

Pipeline(Lines, Max) ==
    \/ MainStart
    \/ ReadLine(Lines, Max)
    \/ Collect
    \/ Exhaust
    \/ Analyze
    \/ Sort
    \/ Report

Next == Pipeline(LineSet, MaxLines)

Spec == Init /\ [][Next]_vars

\* main on long files of two kinds of line.
NextTolerance == Pipeline(TolLineSet, MaxTolLines)

SpecTolerance == Init /\ [][NextTolerance]_vars

----------------------------------------------------------------------------
(* The helpers called directly.                                             *)

InitUnit ==
    /\ pc = "start"
    /\ config = 1
    /\ latest_log = << >>
    /\ lines = << >>
    /\ drained = FALSE
    /\ total_lines = 0
    /\ missed_count = 0
    /\ yielded = << >>
    /\ request_line = << >>
    /\ url_times = << >>
    /\ analyzed_requests = << >>
    /\ sorted_requests = << >>
    /\ report = << >>
    /\ err = NoErr
    /\ call \in Calls
    /\ ret = NoRet

CallMedian ==
    /\ call.fn = "calc_median"
    /\ ~ret.done
    /\ LET r == calc_median(call.numbers)
       IN  ret' = [NoRet EXCEPT !.done = TRUE, !.median = r.ret,
                                !.numbers = r.numbers]
    /\ UNCHANGED <<pipeline_vars, call>>

CallAnalyze ==
    /\ call.fn = "analyze_requests"
    /\ ~ret.done
    /\ LET r == analyze_requests(call.times_map)
       IN  ret' = [NoRet EXCEPT !.done = TRUE, !.error = r.error,
                                !.value = r.value]
    /\ UNCHANGED <<pipeline_vars, call>>

\* sort_requests_by_time_sum followed by the slice, as main calls them.
CallRank ==
    /\ call.fn = "rank"
    /\ ~ret.done
    /\ ret' = [NoRet EXCEPT !.done = TRUE,
                 !.value = slice(sort_requests_by_time_sum(call.requests),
                                 call.size)]
    /\ UNCHANGED <<pipeline_vars, call>>

CallFind ==
    /\ call.fn = "find_latest_log"
    /\ ~ret.done
    /\ LET r == find_latest_log(call.listing)
       IN  ret' = [NoRet EXCEPT !.done = TRUE, !.error = r.error, !.log = r.log]
    /\ UNCHANGED <<pipeline_vars, call>>

NextUnit == CallMedian \/ CallAnalyze \/ CallRank \/ CallFind

SpecUnit == InitUnit /\ [][NextUnit]_vars

----------------------------------------------------------------------------
(* Properties.                                                              *)

\* The lines read so far that the pattern does not match.
Unmatched == {i \in 1..Len(lines) :
                lines[i].type = "str" /\ log_pattern_match(lines[i].text) = << >>}

\* The groupdicts of the matched lines among the first n lines read, in order.
RECURSIVE MatchedRecords(_)
MatchedRecords(n) ==
    IF n = 0 THEN << >>
    ELSE LET m == IF lines[n].type = "str"
                  THEN log_pattern_match(lines[n].text) ELSE << >>
         IN  MatchedRecords(n - 1) \o m

EmptyInput == [type |-> "ValueError", at |-> "parse_lines"]

TooManyUnmatchedLines == [type |-> "RuntimeError", at |-> "parse_lines"]

AtOrAboveLimit == 100 * Cardinality(Unmatched) >= limit_perc * Len(lines)

\* C1: parse_lines raises TooManyUnmatchedLines exactly when the file has been
\* read to its end, at least one line was read and 100 * unmatched / total is
\* at least 30; a file read to its end below that ends parse_lines normally.
C1_TooManyIffDrainedAtLimit ==
    /\ err = TooManyUnmatchedLines
         <=> (drained /\ Len(lines) > 0 /\ AtOrAboveLimit)
    /\ (drained /\ Len(lines) > 0 /\ ~AtOrAboveLimit) => err.at # "parse_lines"

\* A file of ten lines, three of them unmatched, was refused.
C1_Witness ==
    /\ err = TooManyUnmatchedLines
    /\ Len(lines) = 10
    /\ Cardinality(Unmatched) = 3

\* C2: parse_lines raises EmptyInput exactly when the file has been read to
\* its end and held no line, and then nothing was yielded or collected.
C2_EmptyIffNoLines ==
    /\ err = EmptyInput <=> (drained /\ Len(lines) = 0)
    /\ err = EmptyInput => (yielded = << >> /\ url_times = << >>)
    /\ (drained /\ Len(lines) > 0 /\ Cardinality(Unmatched) = Len(lines))
         => (err = TooManyUnmatchedLines /\ yielded = << >>)

\* An empty file was refused.
C2_Witness ==
    /\ err = EmptyInput
    /\ pc = "failed"
    /\ latest_log # << >>

\* C3: no report is written in a run that parse_lines ends with EmptyInput or
\* TooManyUnmatchedLines; a report is written only after the file was read to
\* its end and both checks passed.
C3_NoReportOnAbort ==
    /\ err \in {EmptyInput, TooManyUnmatchedLines} => report = << >>
    /\ report # << >>
         => (drained /\ Len(lines) > 0 /\ ~AtOrAboveLimit /\ err = NoErr)

\* A run was aborted for too many unmatched lines after records had been
\* collected, and no report was written.
C3_Witness ==
    /\ err = TooManyUnmatchedLines
    /\ url_times # << >>
    /\ report = << >>
    /\ pc = "failed"

\* C4: at every yield and at the end of the file, total_lines is the number of
\* lines read, total_lines = records yielded + missed_count, and the records
\* yielded are the groupdicts of the matched lines read, in order, once each.
C4_CountersAndOrder ==
    (pc = "yield" \/ drained)
      => /\ total_lines = Len(lines)
         /\ total_lines = Len(yielded) + missed_count
         /\ missed_count = Cardinality(Unmatched)
         /\ yielded = MatchedRecords(Len(lines))

\* A record is being yielded after an unmatched line and an earlier record.
C4_Witness ==
    /\ pc = "yield"
    /\ missed_count > 0
    /\ Len(yielded) >= 2

\* The records collect_times_for_urls has taken from parse_lines.
Collected ==
    IF request_line = << >> THEN yielded
    ELSE SubSeq(yielded, 1, Len(yielded) - 1)

\* The request times of the records of url among the first n collected.
RECURSIVE TimesIn(_, _)
TimesIn(url, n) ==
    IF n = 0 THEN << >>
    ELSE TimesIn(url, n - 1)
         \o (IF Collected[n].request_url = url
             THEN <<float(Collected[n].request_time)>> ELSE << >>)

\* C7: url_times holds, for each URL, the request times of the records of that
\* URL in the order they were taken, no URL has an empty list, there are as
\* many samples as records taken, and collect_times_for_urls has returned only
\* once every record yielded was taken and the file was read to its end.
C7_CollectedInOrder ==
    /\ Urls(url_times) = {Collected[i].request_url : i \in 1..Len(Collected)}
    /\ Cardinality(Urls(url_times)) = Len(url_times)
    /\ \A i \in 1..Len(url_times) :
         /\ url_times[i].times # << >>
         /\ url_times[i].times = TimesIn(url_times[i].url, Len(Collected))
    /\ TotalCount(url_times) = Len(Collected)
    /\ pc \in {"analyze", "sort", "slice", "done"}
         => (drained /\ Collected = yielded)

\* collect_times_for_urls has returned two URLs, one with two different times.
C7_Witness ==
    /\ pc = "analyze"
    /\ Len(url_times) = 2
    /\ \E i \in 1..Len(url_times) :
         /\ Len(url_times[i].times) = 2
         /\ url_times[i].times[1] # url_times[i].times[2]

\* C9: every element get_log_lines yields is text, and parse_lines ends only
\* normally, with EmptyInput or with TooManyUnmatchedLines, for a plain and
\* for a compressed log alike.
C9_LinesAreText ==
    /\ \A i \in 1..Len(lines) : lines[i].type = "str"
    /\ err.at = "parse_lines" => err \in {EmptyInput, TooManyUnmatchedLines}

----------------------------------------------------------------------------
(* Properties of the helpers called directly.                               *)

\* C5: analyze_requests returns one UrlStats per URL, without raising, for
\* every TimeSampleSet whose URLs each have a sample and whose samples are
\* all >= 0, and the empty list for the empty TimeSampleSet.
C5_AnalyzeNeverRaises ==
    (call.fn = "analyze_requests" /\ ret.done)
      => /\ ret.error = "none"
         /\ Len(ret.value) = Len(call.times_map)
         /\ \A i \in 1..Len(ret.value) : ret.value[i].url = call.times_map[i].url

\* The order of the indices of requests by time_sum descending, equal
\* time_sums by index ascending.
RankOrder(requests) ==
    LET n == Len(requests)
    IN  CHOOSE p \in [1..n -> 1..n] :
          \A i, j \in 1..n :
            i < j => \/ requests[p[i]].time_sum > requests[p[j]].time_sum
                     \/ /\ requests[p[i]].time_sum = requests[p[j]].time_sum
                        /\ p[i] < p[j]

\* C6: the ranked output is the first min(REPORT_SIZE, length) entries of the
\* input ordered by time_sum descending, equal time_sums in their input order.
C6_TopByTimeSumStable ==
    (call.fn = "rank" /\ ret.done)
      => LET p == RankOrder(call.requests)
             k == Min(call.size, Len(call.requests))
         IN  /\ Len(ret.value) = k
             /\ \A i \in 1..k : ret.value[i] = call.requests[p[i]]

\* A list with two equal time_sums below a larger one that comes last was
\* ranked and cut.
C6_Witness ==
    /\ call.fn = "rank"
    /\ ret.done
    /\ Len(call.requests) = 3
    /\ call.size = 2
    /\ call.requests[1].time_sum = call.requests[2].time_sum
    /\ call.requests[3].time_sum > call.requests[1].time_sum

\* The ascending arrangement of numbers.
Ascending(numbers) ==
    LET n == Len(numbers)
    IN  CHOOSE s \in [1..n -> Range(numbers)] :
          /\ \A i \in 1..(n - 1) : s[i] <= s[i + 1]
          /\ \A v \in Range(numbers) :
               Cardinality({i \in 1..n : s[i] = v})
                 = Cardinality({i \in 1..n : numbers[i] = v})

\* C8: calc_median returns the middle element of the sorted list for an odd
\* length and the mean of the two middle elements for an even length, and
\* leaves the list it was given as it was.
C8_Median ==
    (call.fn = "calc_median" /\ ret.done)
      => LET s == Ascending(call.numbers)
             n == Len(call.numbers)
         IN  /\ n % 2 = 1 => ret.median = s[(n + 1) \div 2]
             /\ n % 2 = 0 => 2 * ret.median = s[n \div 2] + s[n \div 2 + 1]
             /\ ret.numbers = call.numbers

\* The median of an unsorted list of even length whose middle elements differ
\* was computed.
C8_Witness ==
    /\ call.fn = "calc_median"
    /\ ret.done
    /\ call.numbers = <<3 * Unit, 0, Unit, 0>>
    /\ 2 * ret.median = Unit

\* The entries of listing that find_latest_log should consider.
Qualifying(listing) ==
    {i \in 1..Len(listing) :
       /\ findall(listing[i]) # << >>
       /\ try_parse_date(listing[i].digits) # << >>}

\* C10: find_latest_log returns the qualifying entry with the greatest date,
\* whatever the order of the listing, and None when no entry qualifies.
C10_LatestQualifying ==
    (call.fn = "find_latest_log" /\ ret.done)
      => LET q == Qualifying(call.listing)
         IN  /\ ret.error = "none"
             /\ q = {} => ret.log = << >>
             /\ q # {} =>
                  /\ ret.log # << >>
                  /\ \E i \in q :
                       /\ ret.log[1].path = call.listing[i]
                       /\ ret.log[1].date = try_parse_date(call.listing[i].digits)[1]
                       /\ \A j \in q :
                            DateNum(try_parse_date(call.listing[j].digits)[1])
                              <= DateNum(ret.log[1].date)

====
